---- MODULE Spec2Model ----
(***************************************************************************)
(* The policy-gated, tool-augmented reasoning pipeline of the K8s LLM      *)
(* client, in its four variants:                                           *)
(*   "deploy"   src/deployment/llm_client/llm_client.py                    *)
(*   "history"  src/deployment/llm_client_history/llm_client.py            *)
(*   "org"      src/test/llm_client/llm_client_org.py                      *)
(*   "mcp"      src/test/mcp/mcp_client.py                                 *)
(* A request is a coroutine of the FastAPI event loop.  Its position is    *)
(* rq[r].pc; the position of the agent executor it runs is rq[r].phase.    *)
(* The judge model, the agent model, the tools' backends are the           *)
(* environment: every call returns one of a small set of outcomes.         *)
(* The executor itself is langchain's AgentExecutor as the lifespan        *)
(* functions construct it: handle_parsing_errors=True and every other      *)
(* setting at its default (max_iterations, early_stopping_method="force"). *)
(***************************************************************************)
EXTENDS Integers, Sequences, FiniteSets, TLC

(***************************************************************************)
(* Bounds of the model.                                                    *)
(***************************************************************************)
\* number of requests a behaviour submits
MaxReqs == 2
\* the executor's cap on think/act cycles (the library default is 15; the
\* lifespan functions pass no max_iterations)
MaxIterations == 2
\* number of calls of all endpoints a behaviour makes
MaxCalls == 3

\* the dialog API: the seconds of the clock and the calls of create_dialog
MaxNow == 3
MaxDialogCalls == 3

Reqs == 1..MaxReqs
Variants == {"deploy", "history", "org", "mcp"}
Messages == {"list namespaces", "delete all pods"}

(***************************************************************************)
(* Text: a string is a sequence of one-character strings.                  *)
(***************************************************************************)
Whitespace == {" ", "\n", "\t"}

\* str.upper() on the characters the judge texts use; a character without an
\* upper-case form is kept, the sharp s becomes two characters
UpperMap ==
    [c \in {"a", "d", "e", "i", "n", "o", "p", "r", "t", "v", "ss", "i_dotless"} |->
        CASE c = "a" -> <<"A">> [] c = "d" -> <<"D">> [] c = "e" -> <<"E">>
          [] c = "i" -> <<"I">> [] c = "n" -> <<"N">> [] c = "o" -> <<"O">>
          [] c = "p" -> <<"P">> [] c = "r" -> <<"R">> [] c = "t" -> <<"T">>
          [] c = "v" -> <<"V">> [] c = "ss" -> <<"S", "S">>
          [] c = "i_dotless" -> <<"I">>]

UpperChar(c) == IF c \in DOMAIN UpperMap THEN UpperMap[c] ELSE <<c>>

RECURSIVE Upper(_)
Upper(s) == IF s = <<>> THEN <<>> ELSE UpperChar(Head(s)) \o Upper(Tail(s))

RECURSIVE LStrip(_)
LStrip(s) == IF s # <<>> /\ Head(s) \in Whitespace THEN LStrip(Tail(s)) ELSE s

RECURSIVE RStrip(_)
RStrip(s) ==
    IF s # <<>> /\ s[Len(s)] \in Whitespace THEN RStrip(SubSeq(s, 1, Len(s) - 1)) ELSE s

Strip(s) == RStrip(LStrip(s))

\* Python's  sub in s
RECURSIVE StrIn(_, _)
StrIn(sub, s) ==
    IF Len(s) < Len(sub) THEN FALSE
    ELSE IF SubSeq(s, 1, Len(sub)) = sub THEN TRUE
    ELSE StrIn(sub, Tail(s))

DENIED == <<"D", "E", "N", "I", "E", "D">>

(***************************************************************************)
(* PolicyGate (ask_llm, stage 1).                                          *)
(***************************************************************************)
\* a faulty Decision: the text is trimmed but not upper-cased
DecisionNoUpper(raw) == Strip(raw)

\* decision = judge_result.content.strip().upper()
Decision(raw) == Upper(Strip(raw))

\* a faulty IsDenied: the decision is compared with == instead of in
IsDeniedExact(decision) == decision = DENIED

\* if "DENIED" in decision
IsDenied(decision) == StrIn(DENIED, decision)

\* what the judge model answers to a request: the approval, or a denial in
\* mixed case with padding and punctuation
JudgeTexts ==
    { <<"A", "P", "P", "R", "O", "V", "E", "D">>,
      <<" ", "D", "e", "n", "i", "e", "d", ".", "\n">> }

(***************************************************************************)
(* The variants.                                                           *)
(***************************************************************************)
\* stage 1 is live code in three variants and commented out in "history"
HasJudge(v) == v \in {"deploy", "org", "mcp"}

\* a faulty HasTranslator: no variant translates
HasTranslatorNone(v) == FALSE

\* the translator call between judge and agent
HasTranslator(v) == v = "org"

\* the prompts sent to app_state.llm_judge: a system instruction and
\* request.message as the only other message
JudgePrompt == [system |-> "sysmsg_judge", human |-> "request.message"]
TranslatorPrompt == [system |-> "sysmsg_translator", human |-> "request.message"]

\* RunnableWithMessageHistory around both executors
HasHistory(v) == v = "history"

\* the routes each app registers
Endpoints(v) == IF v = "mcp" THEN {"ask"} ELSE {"ask", "ask_current"}

\* a faulty Gated: the judge stands before both endpoints
GatedBoth(v, ep) == HasJudge(v)

\* a faulty Gated: no handler waits for the judge
GatedNever(v, ep) == FALSE

\* the handler of ep starts with the judge call
Gated(v, ep) == ep = "ask" /\ HasJudge(v)

\* a faulty SyncInvoke: the history variant awaits its runs (ainvoke), as
\* /ask_current of "deploy" does
SyncInvokeDeployOnly(v, ep) == v = "deploy" /\ ep = "ask"

\* agent_executor.invoke(...) inside  async def : the call does not suspend,
\* the event loop runs nothing else until it returns
SyncInvoke(v, ep) == v = "history" \/ (v = "deploy" /\ ep = "ask")

(***************************************************************************)
(* Tools (tools/k8s_tools.py).                                             *)
(***************************************************************************)
analysis_tools ==
    {"current_time", "kubectl_command", "loki_labels_query", "loki_logs_query",
     "prometheus_pods_metrics"}

debug_tools == {"kubectl_command"}

\* the tools the MCP server offers
mcp_tools == {"ssh_exec", "get_current_time"}

\* a faulty RegisteredTools: both executors are built with analysis_tools
RegisteredToolsAllAnalysis(v, ep) == IF v = "mcp" THEN mcp_tools ELSE analysis_tools

\* the tools= argument of the executor an endpoint runs
RegisteredTools(v, ep) ==
    IF v = "mcp" THEN mcp_tools
    ELSE IF ep = "ask" THEN debug_tools ELSE analysis_tools

\* the names the model may write as its action
SelectableTools == analysis_tools \cup {"ssh_exec"}

\* how the jump server or the HTTP backend behaves during one call
KubectlBackends == {"exit0", "nonzero", "timeout", "oserror"}
HttpBackends == {"ok", "empty", "http_error", "timeout", "unreachable", "badjson"}
Backends == KubectlBackends \cup HttpBackends

\* a faulty KubectlRun: only the exit code is handled, a timeout or an
\* OSError of subprocess.run leaves _run as an exception
KubectlRunNoCatch(b) ==
    IF b = "exit0" THEN "success" ELSE IF b = "nonzero" THEN "error" ELSE "raise"

\* KubectlTool._run: the status of the payload; every exception is caught
KubectlRun(b) == IF b = "exit0" THEN "success" ELSE "error"

\* LokiLabelsQueryTool._run and PrometheusCurrentPodsMetricsTool._run
HttpGetRun(b) == IF b \in {"ok", "empty"} THEN "success" ELSE "error"

\* LokiLogsQueryTool._run: without debug an empty result falls off the end of
\* the try block and the call returns None
LokiLogsRun(b, debug) ==
    IF b \notin {"ok", "empty"} THEN "error"
    ELSE IF debug \/ b = "ok" THEN "success" ELSE "none"

\* the result of tool._run: "success" | "error" (the payload's status),
\* "no_status" (a payload without status), "none" (None), "raise"
ToolRun(tool, b, debug) ==
    CASE tool = "current_time" -> "no_status"
      [] tool = "kubectl_command" -> KubectlRun(b)
      [] tool = "loki_labels_query" -> HttpGetRun(b)
      [] tool = "loki_logs_query" -> LokiLogsRun(b, debug)
      [] tool = "prometheus_pods_metrics" -> HttpGetRun(b)

ToolBackends(tool) == IF tool = "kubectl_command" THEN KubectlBackends ELSE HttpBackends

(***************************************************************************)
(* OutputNormalizer (_is_json_dict and the line after agent_reply.get).    *)
(* A text is a sequence of lexemes: the punctuation of JSON, string        *)
(* literals, a number, null, a blank, and prose (one lexeme that is no     *)
(* JSON).                                                                  *)
(***************************************************************************)
\* final texts of the agent model
PlainAnswer == <<"3 pods running">>
WrappedAnswer == <<"{", "\"action_input\"", ":", " ", "\"3 pods running\"", "}">>
ObjectAnswer == <<"{", "\"pods\"", ":", " ", "3", "}">>
ArrayAnswer == <<"[", "3", ",", " ", "3", "]">>

\* the final texts of the runs: a plain one and one the normalizer unwraps
AgentOutputs == {PlainAnswer, WrappedAnswer}

\* AgentExecutor's answer when it stops at max_iterations
StopMessage == <<"Agent stopped due to iteration limit or time limit.">>

\* the string literals of the texts and the str each one denotes
StringLits == {"\"action_input\"", "\"pods\"", "\"3 pods running\""}

StrContent(lit) ==
    CASE lit = "\"action_input\"" -> <<"action_input">>
      [] lit = "\"pods\"" -> <<"pods">>
      [] lit = "\"3 pods running\"" -> <<"3 pods running">>

\* Python values: a str, an int, None, a list, a dict (its members in the
\* order of the text), and the two ways an evaluation ends without a value
PyStr(s) == [t |-> "str", s |-> s]
PyInt == [t |-> "int", n |-> 3]
PyNone == [t |-> "none"]
PyList(l) == [t |-> "list", l |-> l]
PyDict(m) == [t |-> "dict", m |-> m]
JSONDecodeError == [t |-> "JSONDecodeError"]
AttributeError == [t |-> "AttributeError"]

\* the scanner's result when the text is no JSON
NoParse == [ok |-> FALSE, v |-> JSONDecodeError, rest |-> <<>>]

\* json's scanner: one value at the head of s, blanks skipped
RECURSIVE ParseValue(_)
RECURSIVE ParseElems(_, _)
RECURSIVE ParseMembers(_, _)
ParseValue(s0) ==
    LET s == LStrip(s0) IN
    IF s = <<>> THEN NoParse
    ELSE IF Head(s) \in StringLits
    THEN [ok |-> TRUE, v |-> PyStr(StrContent(Head(s))), rest |-> Tail(s)]
    ELSE IF Head(s) = "3" THEN [ok |-> TRUE, v |-> PyInt, rest |-> Tail(s)]
    ELSE IF Head(s) = "null" THEN [ok |-> TRUE, v |-> PyNone, rest |-> Tail(s)]
    ELSE IF Head(s) = "["
    THEN LET t == LStrip(Tail(s)) IN
         IF t # <<>> /\ Head(t) = "]"
         THEN [ok |-> TRUE, v |-> PyList(<<>>), rest |-> Tail(t)]
         ELSE ParseElems(t, <<>>)
    ELSE IF Head(s) = "{"
    THEN LET t == LStrip(Tail(s)) IN
         IF t # <<>> /\ Head(t) = "}"
         THEN [ok |-> TRUE, v |-> PyDict(<<>>), rest |-> Tail(t)]
         ELSE ParseMembers(t, <<>>)
    ELSE NoParse

\* the elements of an array after "[" : value ("," value)* "]"
ParseElems(s, acc) ==
    LET r == ParseValue(s)
        t == LStrip(r.rest)
    IN  IF ~r.ok \/ t = <<>> THEN NoParse
        ELSE IF Head(t) = "," THEN ParseElems(Tail(t), Append(acc, r.v))
        ELSE IF Head(t) = "]"
        THEN [ok |-> TRUE, v |-> PyList(Append(acc, r.v)), rest |-> Tail(t)]
        ELSE NoParse

\* the members of an object after "{" : string ":" value ("," ...)* "}"
ParseMembers(s0, acc) ==
    LET s == LStrip(s0) IN
    IF s = <<>> \/ Head(s) \notin StringLits THEN NoParse
    ELSE LET t == LStrip(Tail(s)) IN
         IF t = <<>> \/ Head(t) # ":" THEN NoParse
         ELSE LET r == ParseValue(Tail(t))
                  u == LStrip(r.rest)
                  m == Append(acc, [k |-> StrContent(Head(s)), v |-> r.v])
              IN  IF ~r.ok \/ u = <<>> THEN NoParse
                  ELSE IF Head(u) = "," THEN ParseMembers(Tail(u), m)
                  ELSE IF Head(u) = "}"
                  THEN [ok |-> TRUE, v |-> PyDict(m), rest |-> Tail(u)]
                  ELSE NoParse

\* json.loads(s): the value, or JSONDecodeError (also for text after the value)
JsonLoads(s) ==
    LET r == ParseValue(s) IN
    IF r.ok /\ LStrip(r.rest) = <<>> THEN r.v ELSE JSONDecodeError

\* the type of json.loads(s)
JsonType(s) == JsonLoads(s).t

\* a faulty _is_json_dict: every text that is JSON counts, isinstance is not asked
_is_json_any(s) == JsonType(s) # "JSONDecodeError"

_is_json_dict(s) == JsonType(s) = "dict"

\* d.get(key, default): of a repeated key json keeps the last member
RECURSIVE DictGet(_, _, _)
DictGet(m, key, default) ==
    IF m = <<>> THEN default
    ELSE IF m[Len(m)].k = key THEN m[Len(m)].v
    ELSE DictGet(SubSeq(m, 1, Len(m) - 1), key, default)

\* json.loads(output).get("action_input", "no action_input")
ActionInput(s) ==
    LET v == JsonLoads(s) IN
    IF v.t = "dict" THEN DictGet(v.m, <<"action_input">>, PyStr(<<"no action_input">>))
    ELSE IF v.t = "JSONDecodeError" THEN JSONDecodeError
    ELSE AttributeError

\* a faulty Normalize: action_input is read without the _is_json_dict test
NormalizeAlwaysGet(output) == ActionInput(output)

Normalize(output) == IF _is_json_dict(output) THEN ActionInput(output) ELSE PyStr(output)

(***************************************************************************)
(* Responses.  status 0: none yet.  is_safe is "true", "false" or, for an  *)
(* HTTP error, "absent".                                                   *)
(***************************************************************************)
NoResponse == [status |-> 0, shape |-> "none", output |-> PyNone, is_safe |-> "absent"]

\* the fixed reply of the denial branch, a literal of each variant
PolicyMessage(v) ==
    CASE v = "deploy" ->
           <<"This query violates safety policy (e.g., attempts to change state or access sensitive data) and cannot be executed.">>
      [] v = "org" -> <<"policy violation message of llm_client_org.py">>
      [] v = "mcp" ->
           <<"This query violates security policies (e.g., attempts state change or sensitive data access) and cannot be executed.">>
      [] OTHER -> <<"This query violates safety policy and cannot be executed.">>

\* a faulty DeniedResponse: the judge's own text is sent back as the reply
DeniedResponseEcho(v) ==
    [status |-> 200, shape |-> IF v = "deploy" THEN "output_dict" ELSE "str",
     output |-> PyStr(<<"text of the judge model">>), is_safe |-> "false"]

\* return LLMResponse(reply=..., is_safe=False, ...): reply is {"output": msg}
\* in "deploy" and the bare message in "org" and "mcp"
DeniedResponse(v) ==
    [status |-> 200, shape |-> IF v = "deploy" THEN "output_dict" ELSE "str",
     output |-> PyStr(PolicyMessage(v)), is_safe |-> "false"]

\* a faulty JudgeErrorResponse: the except branch answers with a denial
JudgeErrorAsDenial ==
    [status |-> 200, shape |-> "output_dict", output |-> PyStr(<<"judge unavailable">>),
     is_safe |-> "false"]

\* except Exception around the judge call: raise HTTPException(status_code=503, ...)
JudgeErrorResponse == [status |-> 503, shape |-> "none", output |-> PyNone, is_safe |-> "absent"]

\* "org", except Exception around the translator call: 503 as well
TranslatorErrorResponse ==
    [status |-> 503, shape |-> "none", output |-> PyNone, is_safe |-> "absent"]

\* raise HTTPException(status_code=500, ...)
AgentErrorResponse == [status |-> 500, shape |-> "none", output |-> PyNone, is_safe |-> "absent"]

\* return LLMResponse(reply={"output": output}, is_safe=True); "mcp" returns
\* reply=agent_reply, the executor's whole result.  The normalization runs
\* inside the try block: what it raises is answered 500
AgentResponse(v, output) ==
    IF v = "mcp"
    THEN [status |-> 200, shape |-> "agent_dict", output |-> PyStr(output), is_safe |-> "true"]
    ELSE IF Normalize(output).t \in {"JSONDecodeError", "AttributeError"}
    THEN AgentErrorResponse
    ELSE [status |-> 200, shape |-> "output_dict", output |-> Normalize(output),
          is_safe |-> "true"]

(***************************************************************************)
(* State.                                                                  *)
(***************************************************************************)
VARIABLES
    dialog_records, \* the dialog API: the rows of the dialog_records table
    now,            \* the dialog API: int(datetime.datetime.now().timestamp())
    dialog_calls,   \* the dialog API: the calls of create_dialog served, in order
    app_state,      \* the other attributes of app_state: "None" | "set"
    session_id,     \* app_state.session_id
    variant,        \* which of the four apps runs
    started,        \* "starting" | "serving" | "failed": the lifespan function
    running,        \* the request whose handler holds the event loop in a
                    \* call that does not suspend, 0 when none does
    rq,             \* the requests, see NewRequest
    chat_history,   \* the chat_history table: the rows of app_state.session_id
    tables_created, \* the chat_history table exists
    postgres_conn,  \* app_state.postgres_conn: "none" | "open" | "broken"
    history_calls   \* the responses of GET /history and DELETE /history, in
                    \* the order the calls were served, each with the
                    \* session the handler asked for

vars == <<dialog_records, now, dialog_calls, app_state, session_id, variant, started, running, rq, chat_history, tables_created, postgres_conn,
          history_calls>>

\* the state of the dialog API, which the LLM services leave alone
dialogs == <<dialog_records, now, dialog_calls>>

\* what the requests and the history endpoints leave alone
store == <<chat_history, tables_created, postgres_conn, history_calls>>

\* a request not yet submitted.  llm_judge lists the calls the request made
\* on app_state.llm_judge, session_id is the session the handler names in
\* the config of its invoke ("" before, and where there is no history).  msg, iterations, tool, obs and prior
\* are locals of the handler and of the executor's run: they are reset when
\* the handler ends.  judged, judgeRaw, judgeFailed, phase, exhausted and
\* appended keep what happened to the request.
NewRequest ==
    [ep |-> "none", msg |-> "", pc |-> "idle",
     llm_judge |-> <<>>, judged |-> FALSE, judgeRaw |-> <<>>, judgeFailed |-> FALSE,
     phase |-> "NONE", iterations |-> 0, tool |-> "", obs |-> "",
     exhausted |-> FALSE, session_id |-> "", prior |-> <<>>,
     appended |-> 0, resp |-> NoResponse]

\* AppState.__init__: str(uuid.uuid4()), drawn when the module is loaded
uuid4 == "uuid4()"

\* the tool catalogues, the system instructions, the judge client and the
\* two executors kept in app_state
AppStateFields ==
    {"analysis_tools", "debug_tools", "sysmsg_judge", "sysmsg_agent", "sysmsg_routine",
     "llm_judge", "agent_executor", "agent_analyzer"}

\* AppState.__init__: every attribute is None
NoAppState == [f \in AppStateFields |-> "None"]

Init ==
    /\ dialog_records = {}
    /\ now = 1
    /\ dialog_calls = <<>>
    /\ app_state = NoAppState
    /\ session_id = uuid4
    /\ variant \in Variants
    /\ started = "starting"
    /\ running = 0
    /\ rq = [r \in Reqs |-> NewRequest]
    /\ chat_history = <<>>
    /\ tables_created = FALSE
    /\ postgres_conn = "none"
    /\ history_calls = <<>>

\* the calls made so far
Calls == Cardinality({r \in Reqs : rq[r].pc # "idle"}) + Len(history_calls)

\* the event loop can run a step of r
CanRun(r) == started = "serving" /\ running \in {0, r}

(***************************************************************************)
(* Startup (lifespan).                                                     *)
(***************************************************************************)
\* what the lifespan function meets: all well, a prompt file that cannot be
\* read, a database that does not accept the connection, a failing
\* create_tables
StartupOutcomes == {"ok", "file_error", "connect_error", "schema_error"}

\* a faulty StartupServes: a failing create_tables is only logged
StartupServesDespiteSchema(v, o) == v # "mcp" /\ o \in {"ok", "schema_error"}

\* the lifespan function reaches its yield.  "mcp" reads
\* settings.mcp_inventory_urls, a field its Settings model does not declare:
\* it raises before the app serves.  In the others every failing step raises
\* RuntimeError.
StartupServes(v, o) == v # "mcp" /\ o = "ok"

\* a faulty lifespan_assigned: the analysis executor is left for the first
\* POST /ask_current to build
lifespan_assigned_lazy(v, o) ==
    IF v = "mcp" THEN {}
    ELSE {"analysis_tools", "debug_tools"}
         \cup (IF o # "file_error" THEN {"sysmsg_judge", "sysmsg_agent", "sysmsg_routine"}
                ELSE {})
         \cup (IF o = "ok" THEN {"llm_judge", "agent_executor"} ELSE {})

\* the attributes the lifespan function has assigned when it yields or
\* raises: the tools first, then the prompt files (file_error: the first
\* one cannot be read), then, the database step passed, the judge client
\* and the executors.  "mcp" raises before its first assignment.
lifespan_assigned(v, o) ==
    IF v = "mcp" THEN {}
    ELSE {"analysis_tools", "debug_tools"}
         \cup (IF o # "file_error" THEN {"sysmsg_judge", "sysmsg_agent", "sysmsg_routine"}
                ELSE {})
         \cup (IF o = "ok" THEN {"llm_judge", "agent_executor", "agent_analyzer"} ELSE {})

\* steps 1 to 5 of lifespan; only "history" has step 3, the database
Startup(o) ==
    /\ started = "starting"
    /\ o \in {"connect_error", "schema_error"} => HasHistory(variant)
    /\ started' = IF StartupServes(variant, o) THEN "serving" ELSE "failed"
    /\ postgres_conn' = IF HasHistory(variant) /\ o \in {"ok", "schema_error"}
                        THEN "open" ELSE "none"
    /\ tables_created' = (HasHistory(variant) /\ o = "ok")
    /\ app_state' = [f \in AppStateFields |->
                       IF f \in lifespan_assigned(variant, o) THEN "set" ELSE app_state[f]]
    /\ UNCHANGED <<dialogs, session_id, variant, running, rq, chat_history, history_calls>>

\* the connection to PostgreSQL is lost; psycopg does not reconnect, every
\* later statement on app_state.postgres_conn raises
ConnectionLost ==
    /\ postgres_conn = "open"
    /\ postgres_conn' = "broken"
    /\ UNCHANGED <<dialogs, app_state, session_id, variant, started, running, rq, chat_history, tables_created,
                   history_calls>>

\* a statement on the chat_history table succeeds
StoreUp == postgres_conn = "open" /\ tables_created

(***************************************************************************)
(* ReasoningLoop: the executor behind agent_executor / agent_analyzer.     *)
(* A request record rec is taken from one await point to the next.         *)
(***************************************************************************)
\* a faulty ShouldContinue: no cap on the cycles
AlwaysContinue(iterations) == TRUE

\* the executor's loop condition
ShouldContinue(iterations) == iterations < MaxIterations

\* a faulty SessionConfig: each endpoint keeps a session of its own
SessionConfigPerEndpoint(rec) == rec.ep

\* config={"configurable": {"session_id": app_state.session_id}}
SessionConfig(rec) == session_id

\* PostgresChatMessageHistory("chat_history", id, ...): the rows of session
\* id, oldest first.  The table is modelled by the rows of
\* app_state.session_id; no other session has rows written by this process.
_get_session_history(id) == IF id = session_id THEN chat_history ELSE <<>>

\* agent_executor.invoke / agent_chain.ainvoke is reached: with history the
\* wrapper first loads the session's rows; the run starts and waits for its
\* first completion
StartAgent(rec) ==
    [rec EXCEPT !.pc = "loop", !.phase = "THINKING",
                !.session_id = IF HasHistory(variant) THEN SessionConfig(rec) ELSE "",
                !.prior = IF HasHistory(variant)
                          THEN _get_session_history(SessionConfig(rec)) ELSE <<>>]

Turn(type, content) == [type |-> type, content |-> content]

\* a faulty NewTurns: the assistant's turn is stored before the user's
NewTurnsAiFirst(rec, output) ==
    IF HasHistory(variant) /\ StoreUp
    THEN <<Turn("ai", output), Turn("human", rec.msg)>>
    ELSE <<>>

\* a faulty NewTurns: only the assistant's turn is stored
NewTurnsAiOnly(rec, output) ==
    IF HasHistory(variant) /\ StoreUp THEN <<Turn("ai", output)>> ELSE <<>>

\* the rows the wrapper adds when the run returns output: the listener of
\* the run's end hands both messages to one add_messages call; what that
\* call raises is logged by the callback manager and goes no further
NewTurns(rec, output) ==
    IF HasHistory(variant) /\ StoreUp
    THEN <<Turn("human", rec.msg), Turn("ai", output)>>
    ELSE <<>>

\* a faulty add_messages: the new rows replace the session's rows
add_messages_replacing(rows, new) == IF new = <<>> THEN rows ELSE new

\* history.add_messages(...): INSERT INTO chat_history, the new rows after
\* the rows the session has
add_messages(rows, new) == rows \o new

\* a faulty TurnsOnRaise: the user's turn is stored although the run raised
TurnsOnRaiseUser(rec) == IF HasHistory(variant) THEN <<Turn("human", rec.msg)>> ELSE <<>>

\* the rows the wrapper adds when the run raises: it stores turns only from
\* the listener of a successful end
TurnsOnRaise(rec) == <<>>

\* the wrapper's read of the session's rows raises
LoadFails == HasHistory(variant) /\ ~StoreUp

\* ... and the handler's except Exception answers 500; no completion call
\* was made
LoadFailed(rec) ==
    [rec EXCEPT !.pc = "done", !.msg = "", !.session_id = SessionConfig(rec),
                !.resp = AgentErrorResponse]

\* the run returns output: the handler normalizes it and answers 200; the
\* locals of the handler and of the run are gone
Returned(rec, output) ==
    [rec EXCEPT !.pc = "done", !.phase = "DONE",
                !.appended = Len(NewTurns(rec, output)),
                !.resp = AgentResponse(variant, output),
                !.msg = "", !.iterations = 0, !.prior = <<>>]

\* the agent behind the endpoint is a structured chat agent; /ask of "deploy"
\* and of "history" has a ReAct agent, whose output is always text
StructuredChat(v, ep) == v \in {"org", "mcp"} \/ ep = "ask_current"

\* a faulty TurnsOfObject: the pair is stored although the output is no text
TurnsOfObjectStored(rec) ==
    IF HasHistory(variant) /\ StoreUp
    THEN <<Turn("human", rec.msg), Turn("ai", ObjectAnswer)>>
    ELSE <<>>

\* the rows the wrapper adds when the run returns a dict as its output: the
\* listener of the run's end makes messages of texts only and raises on a
\* dict, which is logged and goes no further; nothing is stored
TurnsOfObject(rec) == <<>>

\* the run returns a dict as its output: json.loads(output) in _is_json_dict
\* raises TypeError, which its except json.JSONDecodeError lets through, and
\* the handler's except Exception answers 500
ReturnedObject(rec) ==
    [rec EXCEPT !.pc = "done", !.phase = "DONE",
                !.appended = Len(TurnsOfObject(rec)),
                !.resp = AgentErrorResponse,
                !.msg = "", !.iterations = 0, !.prior = <<>>]

\* the run raises: except Exception answers 500
Raised(rec) ==
    [rec EXCEPT !.pc = "done", !.phase = "FAILED", !.resp = AgentErrorResponse,
                !.appended = Len(TurnsOnRaise(rec)),
                !.msg = "", !.iterations = 0, !.tool = "", !.prior = <<>>]

(***************************************************************************)
(* POST /ask and POST /ask_current up to the agent.                        *)
(***************************************************************************)
\* the handler starts (requests are numbered in the order they start); /ask
\* of a variant with a judge first awaits judge_chain.ainvoke, every other
\* handler goes straight to its agent.  request.message is recorded where it
\* outlives the calls it is passed to: where the wrapper stores it as a turn.
Arrive(r, ep, m) ==
    /\ CanRun(r)
    /\ rq[r].pc = "idle"
    /\ \A q \in Reqs : q < r => rq[q].pc # "idle"
    /\ Calls < MaxCalls
    /\ ep \in Endpoints(variant)
    /\ LET rec == [rq[r] EXCEPT !.ep = ep,
                                !.msg = IF HasHistory(variant) THEN m ELSE ""]
       IN  IF Gated(variant, ep)
           THEN /\ rq' = [rq EXCEPT ![r] = [rec EXCEPT !.pc = "judge",
                                                       !.llm_judge = <<JudgePrompt>>]]
                /\ running' = running
           ELSE IF LoadFails
           THEN /\ rq' = [rq EXCEPT ![r] = LoadFailed(rec)]
                /\ running' = running
           ELSE /\ rq' = [rq EXCEPT ![r] = StartAgent(rec)]
                /\ running' = IF SyncInvoke(variant, ep) THEN r ELSE running
    /\ UNCHANGED <<dialogs, app_state, session_id, variant, started, store>>

\* the judge call returns raw; the handler normalizes it and branches:
\* the denial response, the translator call ("org"), or the agent
JudgeReturn(r, raw) ==
    /\ CanRun(r)
    /\ rq[r].pc = "judge"
    /\ LET decision == Decision(raw)
           rec == [rq[r] EXCEPT !.judged = TRUE, !.judgeRaw = raw]
       IN  IF IsDenied(decision)
           THEN /\ rq' = [rq EXCEPT ![r] = [rec EXCEPT !.pc = "done", !.msg = "",
                                                       !.resp = DeniedResponse(variant)]]
                /\ running' = running
           ELSE IF HasTranslator(variant)
           THEN /\ rq' = [rq EXCEPT ![r] = [rec EXCEPT !.pc = "translate",
                                      !.llm_judge = Append(@, TranslatorPrompt)]]
                /\ running' = running
           ELSE /\ rq' = [rq EXCEPT ![r] = StartAgent(rec)]
                /\ running' = IF SyncInvoke(variant, rec.ep) THEN r ELSE running
    /\ UNCHANGED <<dialogs, app_state, session_id, variant, started, store>>

\* the judge call (or reading its content) raises
JudgeFail(r) ==
    /\ CanRun(r)
    /\ rq[r].pc = "judge"
    /\ rq' = [rq EXCEPT ![r].judgeFailed = TRUE, ![r].msg = "",
                        ![r].resp = JudgeErrorResponse, ![r].pc = "done"]
    /\ UNCHANGED <<dialogs, app_state, session_id, variant, started, running, store>>

\* "org": translator_chain.ainvoke returns and the agent starts, or it raises
\* and the handler answers 503
Translate(r, ok) ==
    /\ CanRun(r)
    /\ rq[r].pc = "translate"
    /\ rq' = [rq EXCEPT ![r] = IF ok THEN StartAgent(@)
                               ELSE [@ EXCEPT !.pc = "done", !.msg = "",
                                              !.resp = TranslatorErrorResponse]]
    /\ running' = IF ok /\ SyncInvoke(variant, rq[r].ep) THEN r ELSE running
    /\ UNCHANGED <<dialogs, app_state, session_id, variant, started, store>>

(***************************************************************************)
(* The steps of the run.                                                   *)
(***************************************************************************)
InLoop(r, phase) == CanRun(r) /\ rq[r].pc = "loop" /\ rq[r].phase = phase

\* the cap is reached: early_stopping_method "force" makes the stop message
\* the output of the run, which returns
ThinkStop(r) ==
    /\ InLoop(r, "THINKING")
    /\ ~ShouldContinue(rq[r].iterations)
    /\ rq' = [rq EXCEPT ![r] = [Returned(@, StopMessage) EXCEPT !.exhausted = TRUE]]
    /\ chat_history' = add_messages(chat_history, NewTurns(rq[r], StopMessage))
    /\ running' = 0
    /\ UNCHANGED <<dialogs, app_state, session_id, variant, started, tables_created, postgres_conn, history_calls>>

\* the model selects a tool; a name outside tools= is answered by the
\* executor itself ("... is not a valid tool") without running anything
ThinkTool(r, t) ==
    /\ InLoop(r, "THINKING")
    /\ ShouldContinue(rq[r].iterations)
    /\ t \in SelectableTools
    /\ rq' = [rq EXCEPT
                ![r].phase = IF t \in RegisteredTools(variant, rq[r].ep)
                             THEN "ACTING" ELSE "OBSERVING",
                ![r].tool = IF t \in RegisteredTools(variant, rq[r].ep) THEN t ELSE "",
                ![r].obs = IF t \in RegisteredTools(variant, rq[r].ep)
                           THEN "" ELSE "invalid_tool"]
    /\ UNCHANGED <<dialogs, app_state, session_id, variant, started, running, store>>

\* the model gives its final answer o: the run returns it
ThinkFinal(r, o) ==
    /\ InLoop(r, "THINKING")
    /\ ShouldContinue(rq[r].iterations)
    /\ rq' = [rq EXCEPT ![r] = Returned(@, o)]
    /\ chat_history' = add_messages(chat_history, NewTurns(rq[r], o))
    /\ running' = 0
    /\ UNCHANGED <<dialogs, app_state, session_id, variant, started, tables_created, postgres_conn, history_calls>>

\* the model gives a final answer whose action_input is a JSON object.  The
\* agents built with STRUCTURED_CHAT_ZERO_SHOT_REACT_DESCRIPTION return the
\* action_input as it is, so the output of the run is a dict, not a text
ThinkFinalObject(r) ==
    /\ InLoop(r, "THINKING")
    /\ ShouldContinue(rq[r].iterations)
    /\ StructuredChat(variant, rq[r].ep)
    /\ rq' = [rq EXCEPT ![r] = ReturnedObject(@)]
    /\ chat_history' = add_messages(chat_history, TurnsOfObject(rq[r]))
    /\ running' = 0
    /\ UNCHANGED <<dialogs, app_state, session_id, variant, started, tables_created, postgres_conn, history_calls>>

\* the output does not parse: handle_parsing_errors=True turns the parser's
\* error into the observation of this cycle
ThinkMalformed(r) ==
    /\ InLoop(r, "THINKING")
    /\ ShouldContinue(rq[r].iterations)
    /\ rq' = [rq EXCEPT ![r].phase = "OBSERVING", ![r].obs = "parse_error"]
    /\ UNCHANGED <<dialogs, app_state, session_id, variant, started, running, store>>

\* the completion call fails after its transport retries: the run raises
ThinkError(r) ==
    /\ InLoop(r, "THINKING")
    /\ ShouldContinue(rq[r].iterations)
    /\ rq' = [rq EXCEPT ![r] = Raised(@)]
    /\ chat_history' = add_messages(chat_history, TurnsOnRaise(rq[r]))
    /\ running' = 0
    /\ UNCHANGED <<dialogs, app_state, session_id, variant, started, tables_created, postgres_conn, history_calls>>

\* the selected tool runs against a backend; what _run returns is the
\* observation, what it raises ends the run
Act(r, b, debug) ==
    /\ InLoop(r, "ACTING")
    /\ b \in ToolBackends(rq[r].tool)
    /\ LET res == ToolRun(rq[r].tool, b, debug) IN
       IF res = "raise"
       THEN /\ rq' = [rq EXCEPT ![r] = Raised(@)]
            /\ chat_history' = add_messages(chat_history, TurnsOnRaise(rq[r]))
            /\ running' = 0
       ELSE /\ rq' = [rq EXCEPT ![r].phase = "OBSERVING", ![r].tool = "",
                                ![r].obs = res]
            /\ chat_history' = chat_history
            /\ running' = running
    /\ UNCHANGED <<dialogs, app_state, session_id, variant, started, tables_created, postgres_conn, history_calls>>

\* a faulty Observe: a cycle that ended in a parse error is not counted
ObserveFreeRetry(r) ==
    /\ InLoop(r, "OBSERVING")
    /\ rq' = [rq EXCEPT ![r].iterations = IF rq[r].obs = "parse_error" THEN @ ELSE @ + 1,
                        ![r].phase = "THINKING", ![r].obs = ""]
    /\ UNCHANGED <<dialogs, app_state, session_id, variant, started, running, store>>

\* the observation joins the scratchpad and the next cycle starts
Observe(r) ==
    /\ InLoop(r, "OBSERVING")
    /\ rq' = [rq EXCEPT ![r].iterations = @ + 1, ![r].phase = "THINKING",
                        ![r].obs = ""]
    /\ UNCHANGED <<dialogs, app_state, session_id, variant, started, running, store>>

(***************************************************************************)
(* GET /history and DELETE /history ("history" only).  Neither handler     *)
(* awaits: each is one step of the event loop.                             *)
(***************************************************************************)
\* the handlers run when no other handler holds the event loop
CanServeHistory ==
    /\ started = "serving"
    /\ running = 0
    /\ HasHistory(variant)
    /\ Calls < MaxCalls

\* except Exception: raise HTTPException(status_code=500, ...)
HistoryErrorResponse(op) ==
    [op |-> op, session_id |-> session_id, status |-> 500, message_count |-> 0,
     messages |-> <<>>]

\* history.get_messages(): SELECT ... ORDER BY id, the rows oldest first
get_messages == _get_session_history(session_id)

\* a faulty GetResponse: message_count is a count of exchanges, not of messages
GetResponseCountsPairs ==
    [op |-> "get", session_id |-> session_id, status |-> 200, message_count |-> Len(get_messages) \div 2,
     messages |-> [i \in 1..Len(get_messages) |->
                     [type |-> get_messages[i].type, content |-> get_messages[i].content]]]

\* the body of the 200 response of GET /history
GetResponse ==
    [op |-> "get", session_id |-> session_id, status |-> 200, message_count |-> Len(get_messages),
     messages |-> [i \in 1..Len(get_messages) |->
                     [type |-> get_messages[i].type, content |-> get_messages[i].content]]]

get_conversation_history ==
    /\ CanServeHistory
    /\ history_calls' = Append(history_calls,
                               IF StoreUp THEN GetResponse ELSE HistoryErrorResponse("get"))
    /\ UNCHANGED <<dialogs, app_state, session_id, variant, started, running, rq, chat_history, tables_created,
                   postgres_conn>>

\* a faulty ClearedRows: clearing an empty session raises (nothing to delete)
ClearedRowsNotEmpty == IF chat_history = <<>> THEN "raise" ELSE "cleared"

\* history.clear(): DELETE FROM chat_history WHERE session_id = ..., which
\* succeeds whether or not a row matches
ClearedRows == "cleared"

\* a faulty ClearErrorResponse: the failure is answered like a success
ClearErrorAsSuccess ==
    [op |-> "delete", session_id |-> session_id, status |-> 200, message_count |-> 0,
     messages |-> <<>>]

ClearErrorResponse == HistoryErrorResponse("delete")

clear_conversation_history ==
    /\ CanServeHistory
    /\ IF StoreUp /\ ClearedRows = "cleared"
       THEN /\ chat_history' = <<>>
            /\ history_calls' = Append(history_calls,
                    [op |-> "delete", session_id |-> session_id, status |-> 200,
                     message_count |-> 0, messages |-> <<>>])
       ELSE /\ chat_history' = chat_history
            /\ history_calls' = Append(history_calls, ClearErrorResponse)
    /\ UNCHANGED <<dialogs, app_state, session_id, variant, started, running, rq, tables_created, postgres_conn>>

Next ==
    \/ \E o \in StartupOutcomes : Startup(o)
    \/ ConnectionLost
    \/ get_conversation_history
    \/ clear_conversation_history
    \/ \E r \in Reqs :
         \/ \E ep \in {"ask", "ask_current"}, m \in Messages : Arrive(r, ep, m)
         \/ \E raw \in JudgeTexts : JudgeReturn(r, raw)
         \/ JudgeFail(r)
         \/ \E ok \in BOOLEAN : Translate(r, ok)
         \/ ThinkStop(r)
         \/ \E t \in SelectableTools : ThinkTool(r, t)
         \/ \E o \in AgentOutputs : ThinkFinal(r, o)
         \/ ThinkFinalObject(r)
         \/ ThinkMalformed(r)
         \/ ThinkError(r)
         \/ \E b \in Backends, debug \in BOOLEAN : Act(r, b, debug)
         \/ Observe(r)

Spec == Init /\ [][Next]_vars

TypeOK ==
    /\ now \in 1..MaxNow
    /\ Len(dialog_calls) <= MaxDialogCalls
    /\ \A row \in dialog_records : row.timestamp \in 1..MaxNow
    /\ app_state \in [AppStateFields -> {"None", "set"}]
    /\ session_id = uuid4
    /\ variant \in Variants
    /\ started \in {"starting", "serving", "failed"}
    /\ running \in Reqs \cup {0}
    /\ \A r \in Reqs :
         /\ rq[r].pc \in {"idle", "judge", "translate", "loop", "done"}
         /\ rq[r].phase \in {"NONE", "THINKING", "ACTING", "OBSERVING", "DONE", "FAILED"}
         /\ rq[r].resp.status \in {0, 200, 500, 503}
    /\ Len(chat_history) <= 2 * MaxReqs
    /\ tables_created \in BOOLEAN
    /\ postgres_conn \in {"none", "open", "broken"}
    /\ Len(history_calls) <= MaxCalls

(***************************************************************************)
(* The dialog API (src/test/api): POST /dialogs/create_dialog stores one   *)
(* record through RecordAPI.store_dialog.  It is a program of its own: the *)
(* variables of the LLM services stay as Init leaves them.                 *)
(***************************************************************************)
\* what the LLM services own
service == <<app_state, session_id, variant, started, running, rq, store>>

\* DialogRequest: user_id, session_id, user_message, system_message
DialogRequests ==
    { [user_id |-> u, session_id |-> "s1", user_message |-> "list namespaces",
       system_message |-> "3 namespaces"] : u \in {1, 2} }

\* DialogRecord(timestamp=..., user_id=..., session_id=..., ...); timestamp
\* is the primary key
DialogRecord(ts, d) ==
    [timestamp |-> ts, session_id |-> d.session_id, user_id |-> d.user_id,
     user_message |-> d.user_message, system_message |-> d.system_message]

\* store_dialog returned None
NoTimestamp == 0

\* what a statement sent to the database meets
DbOutcomes == {"ok", "OperationalError"}

\* store_dialog(d) at second ts on the table rows.  db_session.commit()
\* sends the INSERT and the COMMIT: it raises when the database cannot be
\* reached and when a row with the timestamp exists (IntegrityError), and
\* nothing is inserted.  After a commit the session has expired the
\* attributes of new_dialog, so reading new_dialog.timestamp sends a SELECT;
\* when that raises, the row is in the table, the except block rolls back
\* the empty transaction and None is returned.
store_dialog(rows, d, ts, commit, read) ==
    IF commit # "ok" \/ \E row \in rows : row.timestamp = ts
    THEN [rows |-> rows, returned |-> NoTimestamp]
    ELSE [rows |-> rows \cup {DialogRecord(ts, d)},
          returned |-> IF read = "ok" THEN ts ELSE NoTimestamp]

\* the clock reaches the next second
Tick ==
    /\ now < MaxNow
    /\ now' = now + 1
    /\ UNCHANGED <<dialog_records, dialog_calls, service>>

\* if timestamp: StatusResponse(status="success", ...); else: HTTPException
\* 500, which the except Exception of the handler raises again as a 500
create_dialog(d, commit, read) ==
    /\ Len(dialog_calls) < MaxDialogCalls
    /\ LET res == store_dialog(dialog_records, d, now, commit, read) IN
       /\ dialog_records' = res.rows
       /\ dialog_calls' = Append(dialog_calls,
              [dialog |-> d, at |-> now, returned |-> res.returned,
               status |-> IF res.returned # NoTimestamp THEN 200 ELSE 500])
    /\ UNCHANGED <<now, service>>

InitDialog ==
    /\ dialog_records = {}
    /\ now = 1
    /\ dialog_calls = <<>>
    /\ app_state = NoAppState
    /\ session_id = uuid4
    /\ variant = "org"
    /\ started = "starting"
    /\ running = 0
    /\ rq = [r \in Reqs |-> NewRequest]
    /\ chat_history = <<>>
    /\ tables_created = FALSE
    /\ postgres_conn = "none"
    /\ history_calls = <<>>

NextDialog ==
    \/ Tick
    \/ \E d \in DialogRequests, commit \in DbOutcomes, read \in DbOutcomes :
          create_dialog(d, commit, read)

SpecDialog == InitDialog /\ [][NextDialog]_vars

(***************************************************************************)
(* PolicyGate alone: one /ask request waits for its judge, whose answer    *)
(* is any text of GateTexts.                                               *)
(***************************************************************************)
GatePrefixes == { <<>>, <<" ">>, <<"\n", "\t">>, <<"n", "o", "t", " ">> }

GateCores ==
    { <<"D", "E", "N", "I", "E", "D">>,
      <<"d", "e", "n", "i", "e", "d">>,
      <<"D", "e", "n", "i", "e", "d">>,
      <<"d", "e", "n", "i_dotless", "e", "d">>,
      <<"D", "E", "N", "I", "E">>,
      <<"D", "E", " ", "N", "I", "E", "D">>,
      <<"d", "e", "n", "i", "e", "ss">>,
      <<"A", "P", "P", "R", "O", "V", "E", "D">>,
      <<"a", "p", "p", "r", "o", "v", "e", "d">>,
      <<>> }

GateSuffixes == { <<>>, <<".">>, <<" ", "\n">> }

GateTexts == { p \o c \o x : p \in GatePrefixes, c \in GateCores, x \in GateSuffixes }

InitGate ==
    /\ dialog_records = {}
    /\ now = 1
    /\ dialog_calls = <<>>
    /\ app_state = [f \in AppStateFields |-> "set"]
    /\ session_id = uuid4
    /\ variant \in {v \in Variants : HasJudge(v) /\ v # "mcp"}
    /\ started = "serving"
    /\ running = 0
    /\ rq = [r \in Reqs |-> IF r = 1 THEN [NewRequest EXCEPT !.ep = "ask", !.pc = "judge",
                                                            !.llm_judge = <<JudgePrompt>>]
                            ELSE NewRequest]
    /\ chat_history = <<>>
    /\ tables_created = FALSE
    /\ postgres_conn = "none"
    /\ history_calls = <<>>

NextGate == \E raw \in GateTexts : JudgeReturn(1, raw)

SpecGate == InitGate /\ [][NextGate]_vars

(***************************************************************************)
(* OutputNormalizer alone: one request of "history" (where the raw output  *)
(* stays visible as the stored assistant turn) waits for the completion    *)
(* that ends its run; the final text is any text of NormTexts.             *)
(***************************************************************************)
\* the largest number of members of a generated object
MaxMembers == 2

NormKeys == {"\"action_input\"", "\"pods\""}

NormValues ==
    { <<"\"3 pods running\"">>, <<"3">>, <<"null">>, <<"[", "3", "]">>, <<"{", "}">> }

NormMembers == { <<k, ":">> \o v : k \in NormKeys, v \in NormValues }

\* the texts  m1 , m2 , ...  of at most n members
RECURSIVE MemberLists(_)
MemberLists(n) ==
    IF n = 0 THEN { <<>> }
    ELSE MemberLists(n - 1) \cup
         { (IF l = <<>> THEN <<>> ELSE l \o <<",">>) \o m :
               l \in MemberLists(n - 1), m \in NormMembers }

NormObjects == { <<"{">> \o l \o <<"}">> : l \in MemberLists(MaxMembers) }

\* JSON that is no object, prose, and objects that are broken
NormOthers ==
    { <<>>, PlainAnswer, StopMessage, WrappedAnswer, ObjectAnswer, ArrayAnswer,
      <<"[", "]">>, <<"[">> \o WrappedAnswer \o <<"]">>,
      <<"\"3 pods running\"">>, <<"\"action_input\"">>, <<"3">>, <<"null">>,
      <<"{", "\"action_input\"", ":", "3">>,
      <<"{", "\"action_input\"", ":", "3", ",", "}">>,
      <<"{", "\"action_input\"", "3", "}">>,
      <<"{", "3", ":", "3", "}">>,
      <<"{", "\"action_input\"", ":", "3 pods running", "}">>,
      <<"{", "\"action_input\"", ":", "3", "}", "}">>,
      WrappedAnswer \o <<"3 pods running">>,
      <<"3 pods running">> \o WrappedAnswer }

NormPads == { <<>>, <<" ">> }

NormTexts == { p \o c \o q : p \in NormPads, c \in NormObjects \cup NormOthers, q \in NormPads }

InitNorm ==
    /\ dialog_records = {}
    /\ now = 1
    /\ dialog_calls = <<>>
    /\ app_state = [f \in AppStateFields |-> "set"]
    /\ session_id = uuid4
    /\ variant = "history"
    /\ started = "serving"
    /\ running = 1
    /\ chat_history = <<>>
    /\ tables_created = TRUE
    /\ postgres_conn = "open"
    /\ history_calls = <<>>
    /\ rq = [r \in Reqs |->
               IF r = 1 THEN StartAgent([NewRequest EXCEPT !.ep = "ask",
                                                           !.msg = "list namespaces"])
               ELSE NewRequest]

NextNorm == \E o \in NormTexts : ThinkFinal(1, o)

SpecNorm == InitNorm /\ [][NextNorm]_vars

(***************************************************************************)
(* Properties.                                                             *)
(***************************************************************************)
\* the text, trimmed and upper-cased, has the token DENIED somewhere in it
HasDeniedToken(raw) ==
    LET u == Upper(Strip(raw)) IN
    \E i \in 1..Len(u) :
        /\ i + 5 <= Len(u)
        /\ \A k \in 1..6 : u[i + k - 1] = DENIED[k]

\* the executor of request r was started: it made a completion call or ran a tool
AgentStarted(r) == rq[r].phase # "NONE"

\* C1: a request whose judge text normalizes to something containing DENIED
\* never reaches the ReasoningLoop: its executor is never started, so no agent
\* completion and no tool invocation is made for it.
C1_DeniedNeverReachesLoop ==
    \A r \in Reqs :
        (rq[r].judged /\ HasDeniedToken(rq[r].judgeRaw)) =>
            /\ ~AgentStarted(r)
            /\ rq[r].pc = "done"
            /\ rq[r].tool = ""

C1_Witness ==
    \E r \in Reqs :
        /\ rq[r].ep = "ask" /\ rq[r].judged /\ HasDeniedToken(rq[r].judgeRaw)
        /\ rq[r].pc = "done" /\ rq[r].resp.status = 200

\* C2: in every variant, an agent execution started by POST /ask is preceded
\* in the same request by a completed judge call whose decision was not DENIED.
C2_AgentPrecededByJudge ==
    \A r \in Reqs :
        (rq[r].ep = "ask" /\ AgentStarted(r)) =>
            (rq[r].judged /\ ~HasDeniedToken(rq[r].judgeRaw))

\* C3: the gate's decision is a function of the judge's raw text alone: the
\* request is denied iff the trimmed, upper-cased text contains DENIED; any
\* other text, the empty one included, lets the request go on (fail-open).
C3_DecisionIsContainment ==
    \A r \in Reqs :
        rq[r].judged =>
            IF HasDeniedToken(rq[r].judgeRaw)
            THEN rq[r].pc = "done" /\ rq[r].resp.is_safe = "false"
            ELSE rq[r].pc \in {"translate", "loop"} /\ rq[r].resp = NoResponse

C3_Witness ==
    \E r \in Reqs :
        /\ rq[r].judged /\ rq[r].judgeRaw = <<>>
        /\ rq[r].pc \in {"translate", "loop"}

\* C4: a failure of the judge call on POST /ask is answered 503 and is no
\* denial: the response carries no is_safe and the agent is not invoked.
C4_JudgeFailureIs503 ==
    \A r \in Reqs :
        rq[r].judgeFailed =>
            /\ rq[r].pc = "done"
            /\ rq[r].resp.status = 503
            /\ rq[r].resp.is_safe = "absent"
            /\ ~AgentStarted(r)

C4_Witness == \E r \in Reqs : rq[r].ep = "ask" /\ rq[r].judgeFailed /\ rq[r].pc = "done"

\* C5: every response with is_safe = false carries the variant's fixed
\* policy-violation message, whatever the request, the tools' output and the
\* stored history; the agent produced no text for such a request.
C5_UnsafeReplyIsFixed ==
    \A r \in Reqs :
        rq[r].resp.is_safe = "false" =>
            /\ rq[r].resp.status = 200
            /\ rq[r].resp.output = PyStr(PolicyMessage(variant))
            /\ rq[r].resp.output.s \notin AgentOutputs \cup {StopMessage, <<"no action_input">>}
            /\ ~AgentStarted(r)

C5_Witness ==
    \E r \in Reqs :
        /\ rq[r].resp.is_safe = "false"
        /\ \E q \in Reqs : q # r /\ rq[q].resp.is_safe = "true"

\* C6: whatever the model and the tools answer, the loop makes at most
\* MaxIterations think/act cycles: a cycle is under way only below the cap,
\* and at the cap the only step left to the run is the one that ends it.
C6_CyclesBounded ==
    \A r \in Reqs :
        /\ rq[r].iterations <= MaxIterations
        /\ rq[r].phase \in {"ACTING", "OBSERVING"} => rq[r].iterations < MaxIterations
        /\ (rq[r].phase = "THINKING" /\ rq[r].iterations = MaxIterations) =>
              ~(ENABLED ThinkMalformed(r)) /\ ~(ENABLED ThinkError(r))

C6_Witness == \E r \in Reqs : rq[r].exhausted /\ rq[r].pc = "done"

\* C7: a tool-level error never aborts the loop: the step that ends a tool
\* invocation leaves the run in OBSERVING with the tool's result as the
\* observation, and the step after OBSERVING is back in THINKING; neither
\* step ends the request.
C7_ToolErrorIsObserved ==
    [][\A r \in Reqs :
          /\ (rq[r].phase = "ACTING" /\ rq'[r] # rq[r]) =>
                /\ rq'[r].pc = "loop"
                /\ rq'[r].phase = "OBSERVING"
                /\ rq'[r].obs \in {"success", "error", "no_status", "none"}
          /\ (rq[r].phase = "OBSERVING" /\ rq'[r] # rq[r]) =>
                /\ rq'[r].pc = "loop"
                /\ rq'[r].phase = "THINKING"]_vars

C7_Witness ==
    \E r \in Reqs :
        /\ rq[r].ep = "ask" /\ rq[r].phase = "OBSERVING" /\ rq[r].obs = "error"
        /\ rq[r].iterations = MaxIterations - 1

\* C8: the loop invokes only tools of the active instantiation: on /ask the
\* tool being run is kubectl_command, on /ask_current it is one of the five
\* tools of the catalogue.
C8_ToolsWithinRegistry ==
    \A r \in Reqs :
        rq[r].phase = "ACTING" =>
            /\ rq[r].ep = "ask" => rq[r].tool = "kubectl_command"
            /\ rq[r].ep = "ask_current" =>
                  rq[r].tool \in {"current_time", "kubectl_command", "loki_labels_query",
                                  "loki_logs_query", "prometheus_pods_metrics"}

C8_Witness ==
    \E r, q \in Reqs :
        /\ rq[r].ep = "ask" /\ rq[r].phase = "ACTING"
        /\ rq[q].ep = "ask_current" /\ rq[q].phase = "ACTING"
        /\ rq[q].tool = "loki_logs_query"

LastHistoryCall == history_calls[Len(history_calls)]

\* this step served a call of the history endpoint op
HistoryCallStep(op) ==
    /\ Len(history_calls') = Len(history_calls) + 1
    /\ history_calls'[Len(history_calls')].op = op

StoredPair == {r \in Reqs : rq[r].phase = "DONE" /\ rq[r].appended = 2}

\* some DELETE /history was answered 200
SomeClear == \E i \in 1..Len(history_calls) :
                history_calls[i].op = "delete" /\ history_calls[i].status = 200

C13_ClearIsIdempotent ==
    [][/\ (HistoryCallStep("delete") /\ StoreUp) =>
             /\ history_calls'[Len(history_calls')].status = 200
             /\ chat_history' = <<>>
       /\ (HistoryCallStep("get") /\ StoreUp) =>
             /\ history_calls'[Len(history_calls')].status = 200
             /\ history_calls'[Len(history_calls')].message_count = Len(chat_history)
             /\ chat_history = <<>> => history_calls'[Len(history_calls')].message_count = 0]_vars

C13_Witness ==
    /\ Len(history_calls) = 3
    /\ history_calls[1].op = "delete" /\ history_calls[1].status = 200
    /\ history_calls[2].op = "delete" /\ history_calls[2].status = 200
    /\ history_calls[3].op = "get" /\ history_calls[3].status = 200
    /\ history_calls[3].message_count = 0
    /\ chat_history = <<>>

\* the member of the object's members m that holds key: the last one
LastMember(m, key) ==
    CHOOSE i \in 1..Len(m) : m[i].k = key /\ \A j \in (i + 1)..Len(m) : m[j].k # key

\* C14: a raw output that parses as a JSON object is answered with the value
\* of its action_input key, or with the literal "no action_input" when it has
\* no such key; every other raw output (no JSON, or JSON that is an array, a
\* number, a quoted string, null) is answered unchanged.
C14_NormalizerResult ==
    \A r \in Reqs :
        (rq[r].phase = "DONE" /\ rq[r].appended = 2 /\ Len(chat_history) = 2) =>
            LET raw == chat_history[2].content
                v == JsonLoads(raw)
                out == rq[r].resp
            IN  /\ out.status = 200
                /\ out.shape = "output_dict"
                /\ IF v.t = "dict"
                   THEN IF \E i \in 1..Len(v.m) : v.m[i].k = <<"action_input">>
                        THEN out.output = v.m[LastMember(v.m, <<"action_input">>)].v
                        ELSE out.output = PyStr(<<"no action_input">>)
                   ELSE out.output = PyStr(raw)

C14_Witness ==
    /\ rq[1].phase = "DONE"
    /\ Len(chat_history) = 2
    /\ chat_history[2].content =
          <<" ", "{", "\"pods\"", ":", "3", ",", "\"action_input\"", ":",
            "\"3 pods running\"", "}">>
    /\ rq[1].resp.output = PyStr(PlainAnswer)

\* request r is inside its PolicyGate call or its ReasoningLoop
InFlight(r) == rq[r].pc \in {"judge", "translate", "loop"}

\* the request that would be submitted next
NextIdle(q) == rq[q].pc = "idle" /\ \A p \in Reqs : p < q => rq[p].pc # "idle"

\* C15: while a request is inside its PolicyGate call or its ReasoningLoop,
\* another call can be served: a further POST /ask or POST /ask_current can
\* start, and where the history endpoints exist GET /history and
\* DELETE /history can be answered.
C15_RequestsDoNotBlock ==
    \A r \in Reqs :
        (InFlight(r) /\ Calls < MaxCalls) =>
            /\ \A q \in Reqs : NextIdle(q) =>
                  /\ ENABLED Arrive(q, "ask", "list namespaces")
                  /\ "ask_current" \in Endpoints(variant) =>
                        ENABLED Arrive(q, "ask_current", "list namespaces")
            /\ HasHistory(variant) =>
                  /\ ENABLED get_conversation_history
                  /\ ENABLED clear_conversation_history

\* C16: a POST /ask_current request never waits for or holds a judge result,
\* runs the executor built with the analysis tools, answers is_safe = true
\* whenever it answers 200, and otherwise answers 500: never 503, never
\* is_safe = false.
C16_AskCurrentSkipsGate ==
    \A r \in Reqs :
        rq[r].ep = "ask_current" =>
            /\ rq[r].pc \notin {"judge", "translate"}
            /\ ~rq[r].judged /\ ~rq[r].judgeFailed
            /\ RegisteredTools(variant, rq[r].ep) = analysis_tools
            /\ rq[r].phase = "ACTING" => rq[r].tool \in analysis_tools
            /\ rq[r].resp.status \in {0, 200, 500}
            /\ rq[r].resp.status = 200 => rq[r].resp.is_safe = "true"
            /\ rq[r].resp.is_safe # "false"

C16_Witness ==
    \E r, q \in Reqs :
        /\ rq[r].ep = "ask_current" /\ rq[r].resp.status = 200
        /\ rq[q].ep = "ask_current" /\ rq[q].resp.status = 500
        /\ HasJudge(variant)

\* some call was served
Served == history_calls # <<>> \/ \E r \in Reqs : rq[r].pc # "idle"

\* whatever was served, was served by an app whose startup went through, with
\* the chat_history table created where the variant has one
SchemaBeforeService ==
    Served => (started = "serving" /\ (HasHistory(variant) => tables_created))

\* C17: a GET /history or DELETE /history served while the store is
\* unreachable is answered 500 and changes no stored turn; an app whose
\* schema initialization failed serves nothing, so every call served was
\* preceded by a successful create_tables.
C17_PersistenceErrors ==
    [][/\ \A op \in {"get", "delete"} :
             (HistoryCallStep(op) /\ ~StoreUp) =>
                 /\ history_calls'[Len(history_calls')].status = 500
                 /\ chat_history' = chat_history
       /\ SchemaBeforeService'
       /\ (started = "failed" => started' = "failed" /\ ~Served')]_vars

C17_Witness ==
    /\ postgres_conn = "broken"
    /\ chat_history # <<>>
    /\ Len(history_calls) = 2
    /\ history_calls[1].op = "get" /\ history_calls[1].status = 500
    /\ history_calls[2].op = "delete" /\ history_calls[2].status = 500

\* C18: whatever tool ran, with whatever arguments and backend behaviour, the
\* result the loop observes is a payload whose status is success or error.
C18_ToolPayloadHasStatus ==
    \A r \in Reqs :
        (rq[r].phase = "OBSERVING" /\ rq[r].obs \notin {"invalid_tool", "parse_error"}) =>
            rq[r].obs \in {"success", "error"}

\* C19: from a request's read of the session to its own append, no other
\* request appends to the session and no DELETE /history clears it: as long
\* as the run is under way, the prior turns it was started with are the turns
\* in the store.
C19_ReadThenAppendAtomic ==
    \A r \in Reqs :
        (HasHistory(variant) /\ rq[r].pc = "loop") => rq[r].prior = chat_history

C19_Witness ==
    /\ HasHistory(variant)
    /\ rq[1].phase = "DONE" /\ rq[1].appended = 2
    /\ rq[2].pc = "loop" /\ rq[2].phase = "OBSERVING"
    /\ Len(rq[2].prior) = 2
    /\ history_calls # <<>>

\* C20: within one request the steps follow one another: where /ask has a
\* judge, the run starts only in a step that follows the judge's answer; a
\* tool invocation starts only in the step in which the completion call that
\* selected it returns, when no other tool of the request is in progress; and
\* a completion call is made only when no tool of the request is running.
C20_PipelineIsSequential ==
    [][\A r \in Reqs :
          /\ (rq[r].phase = "NONE" /\ rq'[r].phase # "NONE"
                /\ rq'[r].ep = "ask" /\ HasJudge(variant)) =>
                  /\ rq[r].pc \in {"judge", "translate"}
                  /\ rq'[r].judged
                  /\ rq'[r].phase = "THINKING"
          /\ (rq[r].phase # "ACTING" /\ rq'[r].phase = "ACTING") =>
                  /\ rq[r].phase = "THINKING"
                  /\ rq[r].tool = ""
                  /\ rq'[r].tool \in RegisteredTools(variant, rq[r].ep)
          /\ (rq'[r].phase = "THINKING" /\ rq[r].phase # "THINKING") =>
                  /\ rq[r].phase \in {"NONE", "OBSERVING"}
                  /\ rq'[r].tool = ""
          /\ (rq'[r].tool # "") => rq'[r].phase = "ACTING"]_vars

C20_Witness ==
    \E r \in Reqs :
        /\ rq[r].ep = "ask" /\ rq[r].judged
        /\ rq[r].phase = "ACTING" /\ rq[r].tool = "kubectl_command"
        /\ rq[r].iterations = 1

C22_JudgeModelCalledOnce ==
    \A r \in Reqs :
        (rq[r].pc = "judge" \/ rq[r].judged \/ rq[r].judgeFailed) =>
            rq[r].llm_judge = <<JudgePrompt>>

\* C22 amended: from its arrival to its decision a gated POST /ask request
\* has made exactly one call, with the judge instruction and the user text as
\* the sole turn, and the judge instruction is never sent again for it; after
\* an approval the "org" variant calls the same model once more, with the
\* translator instruction, and no other variant calls it again.
C22_OneJudgePromptPerRequest ==
    \A r \in Reqs :
        /\ rq[r].pc = "judge" => rq[r].llm_judge = <<JudgePrompt>>
        /\ (rq[r].judged \/ rq[r].judgeFailed) =>
              /\ rq[r].llm_judge # <<>>
              /\ rq[r].llm_judge[1] = JudgePrompt
              /\ \A i \in 2..Len(rq[r].llm_judge) : rq[r].llm_judge[i] = TranslatorPrompt
              /\ Len(rq[r].llm_judge) =
                    IF variant = "org" /\ rq[r].judged /\ ~HasDeniedToken(rq[r].judgeRaw)
                    THEN 2 ELSE 1
        /\ (rq[r].ep \in {"none", "ask_current"} \/ ~HasJudge(variant)) => rq[r].llm_judge = <<>>

C22_Witness ==
    \E r, q \in Reqs :
        /\ rq[r].judged /\ Len(rq[r].llm_judge) = 2 /\ rq[r].phase = "DONE"
        /\ rq[q].judged /\ Len(rq[q].llm_judge) = 1 /\ rq[q].resp.is_safe = "false"

\* C23: every response of POST /ask and POST /ask_current answered 200 has
\* the shape reply = {output: ...} with is_safe, the denial included, in
\* every variant.
C23_UniformResponseShape ==
    \A r \in Reqs :
        rq[r].resp.status = 200 =>
            /\ rq[r].resp.shape = "output_dict"
            /\ rq[r].resp.is_safe \in {"true", "false"}

\* C24: the history service has one session for the life of the process:
\* app_state.session_id never changes, every run of POST /ask and of POST
\* /ask_current names it in its config and reads the rows of that session
\* as its prior turns, every GET /history and DELETE /history asks for it,
\* and so the turns of both endpoints are in one common history.
C24_SingleSession ==
    [][/\ session_id' = session_id
       /\ variant = "history" =>
             /\ \A r \in Reqs :
                   /\ (rq[r].pc = "idle" /\ rq'[r].pc # "idle") =>
                         rq'[r].session_id = session_id
                   /\ (rq[r].pc # "loop" /\ rq'[r].pc = "loop") =>
                         rq'[r].prior = chat_history
                   /\ rq'[r].appended > rq[r].appended =>
                         /\ rq[r].session_id = session_id
                         /\ Len(chat_history') = Len(chat_history) + rq'[r].appended
             /\ Len(history_calls') > Len(history_calls) =>
                   LastHistoryCall'.session_id = session_id]_vars

C24_Witness ==
    /\ variant = "history"
    /\ rq[1].ep # rq[2].ep
    /\ rq[1].appended = 2 /\ rq[2].appended = 2
    /\ rq[1].session_id = session_id /\ rq[2].session_id = session_id
    /\ history_calls # <<>>
    /\ LastHistoryCall.op = "get" /\ LastHistoryCall.status = 200
    /\ LastHistoryCall.session_id = session_id
    /\ LastHistoryCall.message_count = 4

IsPrefix(s, t) == Len(s) <= Len(t) /\ \A i \in 1..Len(s) : t[i] = s[i]

\* C25: the store is append-only and its turns are immutable: in every step
\* the stored turns before the step are a prefix of the stored turns after
\* it, except in a step of DELETE /history that answers 200, which leaves
\* the session empty.
C25_AppendOnlyBetweenClears ==
    [][\/ IsPrefix(chat_history, chat_history')
       \/ /\ HistoryCallStep("delete")
          /\ LastHistoryCall'.status = 200
          /\ chat_history' = <<>>]_vars

C25_Witness ==
    /\ Len(chat_history) = 4
    /\ \E r, q \in Reqs :
          /\ r # q
          /\ rq[r].appended = 2 /\ rq[q].appended = 2
          /\ rq[r].resp.status = 200 /\ rq[q].resp.status = 200

\* C26: the process-wide state (tool catalogues, system instructions, judge
\* client, executors) is assigned during startup only, each attribute once
\* and before any call is served: whatever was served found every attribute
\* assigned, and no step of a handler changes any of them.
C26_AppStateFixedAfterStartup ==
    [][/\ app_state' # app_state =>
             /\ started = "starting" /\ ~Served /\ ~Served'
             /\ \A f \in AppStateFields : app_state'[f] # app_state[f] => app_state[f] = "None"
       /\ Served' => \A f \in AppStateFields : app_state'[f] = "set"
       /\ started # "starting" => app_state' = app_state]_vars

C26_Witness ==
    /\ \A f \in AppStateFields : app_state[f] = "set"
    /\ \E r \in Reqs : rq[r].ep = "ask_current" /\ rq[r].resp.status = 200
    /\ \E r \in Reqs : rq[r].ep = "ask" /\ rq[r].resp.status = 200

\* C27: a POST /ask or POST /ask_current request of the history service that
\* is answered 500 or 503 has stored nothing: the step that answers it
\* leaves the stored turns as they are, whether the run raised, the load of
\* the prior turns raised, or the run returned and the normalization of its
\* output raised; and no earlier step of the request stored anything.
C27_ErrorLeavesTurns ==
    [][variant = "history" =>
          \A r \in Reqs :
             /\ (rq[r].resp.status = 0 /\ rq'[r].resp.status \in {500, 503}) =>
                   /\ chat_history' = chat_history
                   /\ rq'[r].appended = 0
             /\ (rq[r].pc \in {"idle", "loop"} /\ rq'[r].pc = "loop") =>
                   chat_history' = chat_history]_vars

C27_Witness ==
    /\ variant = "history"
    /\ chat_history # <<>>
    /\ \E r, q \in Reqs :
          /\ rq[r].phase = "DONE" /\ rq[r].resp.status = 500 /\ rq[r].appended = 0
          /\ rq[q].phase = "DONE" /\ rq[q].resp.status = 200 /\ rq[q].appended = 2
          /\ q < r

\* C28: when a request of the history service is answered 200 and its
\* exchange is stored, the content of the assistant turn just appended
\* equals the reply.output of the response, also for a raw output that the
\* normalizer unwraps.
C28_StoredAnswerIsReply ==
    [][variant = "history" =>
          \A r \in Reqs :
             (rq[r].pc = "loop" /\ rq'[r].resp.status = 200 /\ rq'[r].appended = 2) =>
                 /\ Len(chat_history') = Len(chat_history) + 2
                 /\ chat_history'[Len(chat_history')].type = "ai"
                 /\ rq'[r].resp.output = PyStr(chat_history'[Len(chat_history')].content)]_vars

\* the requests answered 200 in this step
Succeeding == {r \in Reqs : rq[r].resp.status = 0 /\ rq'[r].resp.status = 200}

\* C29: GET /history is read-only and consistent.  A call answered 200
\* leaves the stored turns unchanged and returns the session id, the stored
\* messages in their stored order, and their number as message_count; no
\* request is in flight then, and the number is twice the number of requests
\* answered 200 since the last clear: it is 0 after a clear, grows by 2 with
\* each request answered 200 and changes in no other step, and with no clear
\* so far it is twice the number of all requests answered 200.
C29_GetHistoryConsistent ==
    [][variant = "history" =>
          /\ (HistoryCallStep("get") /\ LastHistoryCall'.status = 200) =>
                /\ chat_history' = chat_history
                /\ \A r \in Reqs : ~InFlight(r)
                /\ LastHistoryCall'.session_id = session_id
                /\ LastHistoryCall'.message_count = Len(LastHistoryCall'.messages)
                /\ Len(LastHistoryCall'.messages) = Len(chat_history)
                /\ \A i \in 1..Len(chat_history) :
                      /\ LastHistoryCall'.messages[i].type = chat_history[i].type
                      /\ LastHistoryCall'.messages[i].content = chat_history[i].content
                /\ \A r \in Reqs : rq[r].resp.status = 200 => rq[r].appended = 2
                /\ ~SomeClear =>
                      LastHistoryCall'.message_count =
                          2 * Cardinality({r \in Reqs : rq[r].resp.status = 200})
          /\ (HistoryCallStep("delete") /\ LastHistoryCall'.status = 200) =>
                Len(chat_history') = 0
          /\ (StoreUp /\ ~HistoryCallStep("delete")) =>
                Len(chat_history') = Len(chat_history) + 2 * Cardinality(Succeeding)]_vars

C29_Witness ==
    /\ Len(history_calls) = 2
    /\ history_calls[1].op = "delete" /\ history_calls[1].status = 200
    /\ history_calls[2].op = "get" /\ history_calls[2].status = 200
    /\ history_calls[2].message_count = 0
    /\ \E r \in Reqs : rq[r].resp.status = 200 /\ rq[r].appended = 2

\* this step served a call of create_dialog
DialogStep == Len(dialog_calls') = Len(dialog_calls) + 1

LastDialogCall == dialog_calls[Len(dialog_calls)]

\* C30: store_dialog is all-or-nothing.  A call of create_dialog answered
\* 200 has added exactly one record, with the request's user_id, session_id
\* and messages and with the timestamp that was returned; a call that failed
\* (the database unreachable, a commit error, a second record in the same
\* second) returned None, is answered 500 and has added or changed no record.
C30_StoreDialogAllOrNothing ==
    [][DialogStep =>
          LET call == LastDialogCall' IN
          /\ call.status \in {200, 500}
          /\ call.status = 200 =>
                /\ call.returned = call.at
                /\ DialogRecord(call.returned, call.dialog) \notin dialog_records
                /\ dialog_records' =
                       dialog_records \cup {DialogRecord(call.returned, call.dialog)}
          /\ call.status = 500 =>
                /\ call.returned = NoTimestamp
                /\ dialog_records' = dialog_records]_vars

====
